---- MODULE Spec2Model ----
(***************************************************************************)
(* Model of src/content.js: the PatreonDataExporter class (paginated       *)
(* fetch, aggregation by creator and year, CSV rendering) and the export   *)
(* button that drives it.                                                  *)
(*                                                                         *)
(* Two families of specifications are defined:                             *)
(*   Spec / FairSpec : one export run after another, driven by the user    *)
(*                     (click, year selection) and by the remote endpoint  *)
(*                     (year listing, pages, failures, metadata count).    *)
(*   PureSpec        : processBillsData followed by generateCSV, applied   *)
(*                     to every per-year fetch result within the bounds.   *)
(*                                                                         *)
(* Amounts are integers (minor units).  Floating point rounding error of   *)
(* the JavaScript number type is not modelled; Math.round and Math.ceil    *)
(* are computed exactly on rationals.                                      *)
(***************************************************************************)
EXTENDS Integers, Sequences, FiniteSets, TLC

VARIABLES
    buttonDisabled,   \* button.disabled of #patreon-export-btn
    selectDisabled,   \* yearSelect.disabled of #patreon-year-select
    buttonText,       \* button.textContent: <<message, percentage-or-Null>>
    selectedValue,    \* yearSelect.value: "all" or the text of a year
    pc,               \* where exportData is suspended (which await / timer)
    requests,         \* calls of fetch() made by the current run, in order
    allYears,         \* exportData: allYears
    yearsToProcess,   \* exportData: yearsToProcess
    completedYears,   \* exportData: completedYears
    billsByYear,      \* exportData: billsByYear (year key -> {bills, campaigns})
    offset,           \* fetchYearData: offset
    totalPages,       \* fetchYearData: totalPages
    currentPage,      \* fetchYearData: currentPage
    allBills,         \* fetchYearData: allBills
    allCampaigns,     \* fetchYearData: allCampaigns
    progressLog,      \* overallProgress values handed to updateProgress by the run
    creatorData,      \* result of processBillsData (insertion ordered)
    csv,              \* result of generateCSV: <<>> or <<table>>
    downloads         \* CSV contents handed to downloadCSV by the current run

vars == <<buttonDisabled, selectDisabled, buttonText, selectedValue, pc, requests,
          allYears, yearsToProcess, completedYears, billsByYear, offset,
          totalPages, currentPage, allBills, allCampaigns, progressLog,
          creatorData, csv, downloads>>

uiVars    == <<buttonDisabled, selectDisabled, buttonText, selectedValue>>
fetchVars == <<offset, totalPages, currentPage, allBills, allCampaigns>>
outVars   == <<creatorData, csv, downloads>>

(***************************************************************************)
(* Bounds of the model.                                                    *)
(***************************************************************************)
\* this.pageSize: 100 in the source, scaled down so that full pages occur.
pageSize == 2
\* The endpoint serves at most this many full pages for one year.
MaxPages == 2
\* PureSpec: at most this many bills in the fetch results of one run.
MaxBills == 3

\* The years the endpoint can report in meta.years.
YearSet == {2023, 2024}

Max(S) == CHOOSE x \in S : \A y \in S : y <= x

\* new Date().getFullYear()
currentFullYear == Max(YearSet)

\* A value that is null / undefined / absent in the JavaScript.
Null == <<>>

(***************************************************************************)
(* Conversions between a year and its text (year.toString(), parseInt,     *)
(* and the property key of billsByYear[year]).                             *)
(***************************************************************************)
toString(year) ==
    CASE year = 2023 -> "2023"
      [] year = 2024 -> "2024"

parseInt(text) ==
    CASE text = "2023" -> 2023
      [] text = "2024" -> 2024

(***************************************************************************)
(* Sequences helpers.                                                      *)
(***************************************************************************)
Range(s) == {s[i] : i \in 1..Len(s)}

RECURSIVE SumSeq(_)
SumSeq(s) == IF s = <<>> THEN 0 ELSE Head(s) + SumSeq(Tail(s))

RECURSIVE SumFunction(_, _)
SumFunction(f, keys) ==
    IF keys = {} THEN 0
    ELSE LET k == CHOOSE k \in keys : TRUE
         IN  f[k] + SumFunction(f, keys \ {k})

\* All sequences over S of length at most n.
SeqsUpTo(S, n) == UNION {[1..k -> S] : k \in 0..n}

\* All orderings of the finite set S.
Orderings(S) == {s \in [1..Cardinality(S) -> S] : Range(s) = S}

(***************************************************************************)
(* formatCurrency.  The formatted text is modelled by its parts: the       *)
(* currency, the whole units and the fractional minor units.               *)
(***************************************************************************)
\* Currency codes Intl.NumberFormat accepts, with their fraction digits.
IntlCurrencies == {"USD", "JPY"}

fractionDigits(currency) ==
    CASE currency = "USD" -> 2
      [] currency = "JPY" -> 0

RECURSIVE pow10(_)
pow10(n) == IF n = 0 THEN 1 ELSE 10 * pow10(n - 1)

formatCurrency(amountCents, currency) ==
    IF currency \in IntlCurrencies
    THEN LET divisor == pow10(fractionDigits(currency))
         IN  [style |-> "intl", currency |-> currency,
              whole |-> amountCents \div divisor,
              frac |-> amountCents % divisor,
              digits |-> fractionDigits(currency)]
    ELSE \* catch: `${currency} ${(amountCents / 100).toFixed(2)}`
         [style |-> "fallback", currency |-> currency,
          whole |-> amountCents \div 100,
          frac |-> amountCents % 100,
          digits |-> 2]

(***************************************************************************)
(* processBillsData.                                                       *)
(*                                                                         *)
(* A bill is [campaignId, amount_cents, vat_charge_amount_cents, currency];*)
(* campaignId "" stands for a missing relationship (undefined), and an     *)
(* absent amount is Null.  A year's campaigns are a function from          *)
(* campaign id to [name, url].  creatorData, a Map keyed by creator name,  *)
(* is a sequence in insertion order of                                     *)
(* [name, yearlySpends, currency, url], yearlySpends being a function      *)
(* from year key to amount.                                                *)
(***************************************************************************)
NoId == ""

\* x || 0
OrZero(x) == IF x = Null THEN 0 ELSE x[1]

\* Faulty variant: the tax amount is left out.
amountCentsNoVat(bill) == OrZero(bill.amount_cents)

\* line 148
amountCents(bill) ==
    OrZero(bill.amount_cents) + OrZero(bill.vat_charge_amount_cents)

has(cd, name) == \E i \in 1..Len(cd) : cd[i].name = name

indexOf(cd, name) == CHOOSE i \in 1..Len(cd) : cd[i].name = name

\* Faulty variant: every bill overwrites the creator's currency and URL.
ensureCreatorLastWins(cd, creatorName, currency, url) ==
    LET fresh == [name |-> creatorName, yearlySpends |-> <<>>,
                  currency |-> currency, url |-> url]
    IN  IF has(cd, creatorName)
        THEN [cd EXCEPT ![indexOf(cd, creatorName)].currency = currency,
                        ![indexOf(cd, creatorName)].url = url]
        ELSE Append(cd, fresh)

\* lines 150-157: create the aggregate on the first bill of a creator
ensureCreator(cd, creatorName, currency, url) ==
    IF has(cd, creatorName)
    THEN cd
    ELSE Append(cd, [name |-> creatorName, yearlySpends |-> <<>>,
                     currency |-> currency, url |-> url])

\* creator.yearlySpends.get(year) || 0
spendOf(yearlySpends, yearKey) ==
    IF yearKey \in DOMAIN yearlySpends THEN yearlySpends[yearKey] ELSE 0

\* Faulty variant: the bill's amount replaces the running total.
addSpendOverwrite(yearlySpends, yearKey, amount) ==
    (yearKey :> amount) @@ yearlySpends

\* lines 160-161
addSpend(yearlySpends, yearKey, amount) ==
    (yearKey :> (spendOf(yearlySpends, yearKey) + amount)) @@ yearlySpends

\* lines 139-162: the body of the inner loop, for one bill
processBill(cd, yearKey, bill, campaigns) ==
    LET campaignId == bill.campaignId
    IN  IF campaignId = NoId THEN cd
        ELSE IF campaignId \notin DOMAIN campaigns THEN cd
        ELSE LET campaign    == campaigns[campaignId]
                 creatorName == campaign.name
                 cd1 == ensureCreator(cd, creatorName, bill.currency, campaign.url)
                 i   == indexOf(cd1, creatorName)
             IN  [cd1 EXCEPT ![i].yearlySpends =
                                  addSpend(@, yearKey, amountCents(bill))]

RECURSIVE processBills(_, _, _, _)
processBills(cd, yearKey, bills, campaigns) ==
    IF bills = <<>> THEN cd
    ELSE processBills(processBill(cd, yearKey, Head(bills), campaigns),
                      yearKey, Tail(bills), campaigns)

\* Object.entries(billsByYear): integer-like keys in ascending numeric order.
RECURSIVE entriesOrder(_)
entriesOrder(keys) ==
    IF keys = {} THEN <<>>
    ELSE LET k == CHOOSE k \in keys : \A j \in keys : parseInt(k) <= parseInt(j)
         IN  <<k>> \o entriesOrder(keys \ {k})

RECURSIVE processYears(_, _, _)
processYears(cd, keys, byYear) ==
    IF keys = <<>> THEN cd
    ELSE processYears(processBills(cd, Head(keys), byYear[Head(keys)].bills,
                                   byYear[Head(keys)].campaigns),
                      Tail(keys), byYear)

\* lines 135-166
processBillsData(byYear) ==
    processYears(<<>>, entriesOrder(DOMAIN byYear), byYear)

(***************************************************************************)
(* generateCSV.  Array.prototype.sort is stable; it is computed here as a  *)
(* stable insertion sort with the source's comparator.                     *)
(***************************************************************************)
\* insert x behind every element that does not sort after it
RECURSIVE insertYear(_, _)
insertYear(x, s) ==
    IF s = <<>> THEN <<x>>
    ELSE IF x - Head(s) > 0          \* (a, b) => b - a, with a = Head(s), b = x
         THEN <<x>> \o s
         ELSE <<Head(s)>> \o insertYear(x, Tail(s))

RECURSIVE sortYearsFrom(_, _)
sortYearsFrom(sorted, rest) ==
    IF rest = <<>> THEN sorted
    ELSE sortYearsFrom(insertYear(Head(rest), sorted), Tail(rest))

\* Faulty variant: the years are used in the order supplied.
sortedYearsUnsorted(years) == years

\* line 171: [...years].sort((a, b) => b - a)
sortedYearsOf(years) == sortYearsFrom(<<>>, years)

\* lines 176-179
RECURSIVE totalOver(_, _)
totalOver(yearlySpends, years) ==
    IF years = <<>> THEN 0
    ELSE spendOf(yearlySpends, toString(Head(years)))
         + totalOver(yearlySpends, Tail(years))

\* lines 175-184
withTotals(cd, years) ==
    [i \in 1..Len(cd) |->
        [name |-> cd[i].name, yearlySpends |-> cd[i].yearlySpends,
         currency |-> cd[i].currency, url |-> cd[i].url,
         totalAmountCents |-> totalOver(cd[i].yearlySpends, years)]]

RECURSIVE insertCreator(_, _)
insertCreator(x, s) ==
    IF s = <<>> THEN <<x>>
    ELSE IF x.totalAmountCents - Head(s).totalAmountCents > 0
         THEN <<x>> \o s
         ELSE <<Head(s)>> \o insertCreator(x, Tail(s))

RECURSIVE sortCreatorsFrom(_, _)
sortCreatorsFrom(sorted, rest) ==
    IF rest = <<>> THEN sorted
    ELSE sortCreatorsFrom(insertCreator(Head(rest), sorted), Tail(rest))

\* Faulty variant: the creators stay in insertion order.
sortByTotalUnsorted(creatorsArray) == creatorsArray

\* line 187: creatorsArray.sort((a, b) => b.totalAmountCents - a.totalAmountCents)
sortByTotal(creatorsArray) == sortCreatorsFrom(<<>>, creatorsArray)

\* lines 192-204: one data row
rowOf(creator, sortedYears) ==
    [name     |-> creator.name,
     currency |-> creator.currency,
     url      |-> creator.url,
     total    |-> formatCurrency(creator.totalAmountCents, creator.currency),
     yearly   |-> [j \in 1..Len(sortedYears) |->
                     formatCurrency(spendOf(creator.yearlySpends,
                                            toString(sortedYears[j])),
                                    creator.currency)]]

\* lines 169-210.  The table before its cells are joined into text:
\* the year of each 'Total Spend <year>' header column, and the data rows.
generateCSV(cd, years) ==
    LET sortedYears   == sortedYearsOf(years)
        creatorsArray == sortByTotal(withTotals(cd, years))
    IN  [headerYears |-> sortedYears,
         rows |-> [i \in 1..Len(creatorsArray) |->
                      rowOf(creatorsArray[i], sortedYears)]]

(***************************************************************************)
(* The remote endpoint's data.                                             *)
(***************************************************************************)
\* The campaign record the endpoint includes for a campaign id in a year.
campaignOf(id, year) ==
    [name |-> IF id = "c1" THEN "Alice" ELSE "Bob",
     url  |-> CASE id = "c1" /\ year = 2023 -> "/alice"
                [] id = "c1" /\ year = 2024 -> "/alice-new"
                [] id = "c2" /\ year = 2023 -> "/bob"
                [] id = "c2" /\ year = 2024 -> "/bob-new"]

campaignsOf(ids, year) == [id \in ids |-> campaignOf(id, year)]

\* Bills the endpoint can return: with and without tax, in two currencies,
\* with a missing campaign reference, with an absent base amount and an
\* ill-formed currency code.
CatalogueSeq ==
    << [campaignId |-> "c1", amount_cents |-> <<1>>,
        vat_charge_amount_cents |-> Null, currency |-> "USD"],
       [campaignId |-> "c2", amount_cents |-> <<3>>,
        vat_charge_amount_cents |-> Null, currency |-> "USD"],
       [campaignId |-> "c1", amount_cents |-> <<2>>,
        vat_charge_amount_cents |-> <<1>>, currency |-> "JPY"],
       [campaignId |-> NoId, amount_cents |-> <<1>>,
        vat_charge_amount_cents |-> <<1>>, currency |-> "USD"],
       [campaignId |-> "c2", amount_cents |-> Null,
        vat_charge_amount_cents |-> <<2>>, currency |-> "XX"] >>

BillCatalogue == Range(CatalogueSeq)

\* The campaign ids a year's response can include.
IncludedSets == {{"c1"}, {"c1", "c2"}}

\* Non-empty lists of distinct years, in any order.
YearLists == UNION {Orderings(S) : S \in (SUBSET YearSet) \ {{}}}

(***************************************************************************)
(* PureSpec: processBillsData (line 279) and generateCSV (line 282)        *)
(* applied to every fetch result within the bounds.                        *)
(***************************************************************************)
\* The fetch results of the years `keys`: any bills of the catalogue, at most
\* MaxBills over all the years, and any of the campaign sets.
FetchResults(keys) ==
    {[k \in keys |-> [bills |-> b[k], campaigns |-> campaignsOf(ids[k], parseInt(k))]] :
        <<b, ids>> \in
            {bi \in [keys -> SeqsUpTo(BillCatalogue, MaxBills)] \X [keys -> IncludedSets] :
                SumFunction([k \in keys |-> Len(bi[1][k])], keys) <= MaxBills}}

PureInit ==
    /\ buttonDisabled = TRUE
    /\ selectDisabled = TRUE
    /\ buttonText = <<"Processing data...", Null>>
    /\ selectedValue = "all"
    /\ pc = "aggregate"
    /\ requests = <<>>
    /\ yearsToProcess \in YearLists
    /\ allYears = yearsToProcess
    /\ completedYears = Len(yearsToProcess)
    /\ billsByYear \in FetchResults({toString(y) : y \in Range(yearsToProcess)})
    /\ offset = 0
    /\ totalPages = 0
    /\ currentPage = 0
    /\ allBills = <<>>
    /\ allCampaigns = <<>>
    /\ progressLog = <<>>
    /\ creatorData = <<>>
    /\ csv = <<>>
    /\ downloads = <<>>

\* line 279
Aggregate ==
    /\ pc = "aggregate"
    /\ creatorData' = processBillsData(billsByYear)
    /\ buttonText' = <<"Generating CSV...", Null>>
    /\ pc' = "render"
    /\ UNCHANGED <<buttonDisabled, selectDisabled, selectedValue, requests,
                   allYears, yearsToProcess, completedYears, billsByYear,
                   fetchVars, progressLog, csv, downloads>>

\* line 282
Render ==
    /\ pc = "render"
    /\ csv' = <<generateCSV(creatorData, yearsToProcess)>>
    /\ buttonText' = <<"Downloading...", Null>>
    /\ pc' = "rendered"
    /\ UNCHANGED <<buttonDisabled, selectDisabled, selectedValue, requests,
                   allYears, yearsToProcess, completedYears, billsByYear,
                   fetchVars, progressLog, creatorData, downloads>>

PureNext == Aggregate \/ Render

PureSpec == PureInit /\ [][PureNext]_vars

(***************************************************************************)
(* The export run: exportData, getAvailableYears and fetchYearData, cut    *)
(* into the steps between their awaits, with the remote endpoint and the   *)
(* user as the environment.                                                *)
(*                                                                         *)
(* In a run the endpoint decides how many bills a page holds, what count   *)
(* its metadata reports and whether a request fails; the content of the    *)
(* k-th bill of a year is fixed (serverBill), PureSpec being the place     *)
(* where the content varies.                                               *)
(***************************************************************************)
\* The k-th bill record (from 0) the endpoint holds for a year.
serverBill(year, k) == CatalogueSeq[((k + year) % Len(CatalogueSeq)) + 1]

\* The campaigns the endpoint knows in a year.
serverCampaignIds(year) == IF year = 2023 THEN {"c1"} ELSE {"c1", "c2"}

\* data.included of a page: the known campaigns its bills refer to.
includedOf(year, bills) ==
    campaignsOf({bills[i].campaignId : i \in 1..Len(bills)} \cap serverCampaignIds(year),
                year)

\* data.meta.count of a response; 0 also stands for an absent count.
MetaCounts == 0..(pageSize * (MaxPages + 1))

\* data.meta.years of a response: distinct years in any order, or none.
YearListings == YearLists \cup {<<>>}

\* lines 42-56: the request fetchYearData / getAvailableYears issues
buildApiUrl(kind, year, off) ==
    [kind |-> kind, year |-> year, offset |-> off, count |-> pageSize,
     status |-> "pending", bills |-> 0]

\* the outstanding request is answered
answered(reqs, status, n) ==
    [reqs EXCEPT ![Len(reqs)].status = status, ![Len(reqs)].bills = n]

\* lines 91-93
latchTotalPages(total, count) ==
    IF total = 0 /\ count # 0
    THEN (count + pageSize - 1) \div pageSize      \* Math.ceil(count / pageSize)
    ELSE total

\* line 270, Math.round computed exactly (half rounds up)
overallProgress(completed, nYears, page, total) ==
    LET t   == IF total > 1 THEN total ELSE 1      \* Math.max(totalPages, 1)
        num == 100 * (completed * t + page)
        den == nYears * t
    IN  (2 * num + den) \div (2 * den)

\* Faulty variant: the next page is requested one record further.
nextOffsetByOne(off) == off + 1

\* line 102
nextOffset(off) == off + pageSize

\* line 98: the page is not full
isLastPage(n) == n < pageSize

\* Faulty variant: the failure handler leaves the controls disabled.
exportFailedStaysDisabled ==
    /\ buttonText' = <<"Export failed - check console", Null>>
    /\ UNCHANGED <<buttonDisabled, selectDisabled>>
    /\ pc' = "idle"

\* lines 294-299: the catch block of exportData
exportFailed ==
    /\ buttonText' = <<"Export failed - check console", Null>>
    /\ buttonDisabled' = FALSE
    /\ selectDisabled' = FALSE
    /\ pc' = "idle"

\* lines 60-67 and 70: fetchYearData starts and issues its first request
startYear(reqs, year) ==
    /\ offset' = 0
    /\ totalPages' = 0
    /\ currentPage' = 0
    /\ allBills' = <<>>
    /\ allCampaigns' = <<>>
    /\ requests' = Append(reqs, buildApiUrl("page", year, 0))
    /\ pc' = "page"

\* lines 113 and 274-292: fetchYearData returns; exportData stores the
\* result and goes on to the next year or, after the last, to the CSV
returnYear(reqs, year, bills, campaigns, total, page, text) ==
    LET byYear == (toString(year) :> [bills |-> bills, campaigns |-> campaigns])
                     @@ billsByYear
    IN  /\ billsByYear' = byYear
        /\ completedYears' = completedYears + 1
        /\ IF completedYears + 1 < Len(yearsToProcess)
           THEN /\ startYear(reqs, yearsToProcess[completedYears + 2])
                /\ buttonText' = text
                /\ UNCHANGED <<buttonDisabled, selectDisabled, outVars>>
           ELSE /\ requests' = reqs
                /\ creatorData' = processBillsData(byYear)
                /\ csv' = <<generateCSV(processBillsData(byYear), yearsToProcess)>>
                /\ downloads' = Append(downloads,
                                       generateCSV(processBillsData(byYear), yearsToProcess))
                /\ buttonText' = <<"Complete!", Null>>
                /\ pc' = "complete"
                /\ allBills' = bills
                /\ allCampaigns' = campaigns
                /\ totalPages' = total
                /\ currentPage' = page
                /\ UNCHANGED <<buttonDisabled, selectDisabled, offset>>

\* lines 307-394: createExportButton
Init ==
    /\ buttonDisabled = FALSE
    /\ selectDisabled = FALSE
    /\ buttonText = <<"Download Membership Data", Null>>
    /\ selectedValue = "all"
    /\ pc = "idle"
    /\ requests = <<>>
    /\ allYears = <<>>
    /\ yearsToProcess = <<>>
    /\ completedYears = 0
    /\ billsByYear = <<>>
    /\ offset = 0
    /\ totalPages = 0
    /\ currentPage = 0
    /\ allBills = <<>>
    /\ allCampaigns = <<>>
    /\ progressLog = <<>>
    /\ creatorData = <<>>
    /\ csv = <<>>
    /\ downloads = <<>>

\* The user picks an option of the year selector.
SelectYear(value) ==
    /\ ~selectDisabled
    /\ value # selectedValue
    /\ selectedValue' = value
    /\ UNCHANGED <<buttonDisabled, selectDisabled, buttonText, pc, requests,
                   allYears, yearsToProcess, completedYears, billsByYear,
                   fetchVars, progressLog, outVars>>

\* lines 386-388 and 242-252: a click starts exportData, up to the request
\* of getAvailableYears (lines 117-121)
Click ==
    /\ ~buttonDisabled
    /\ buttonDisabled' = TRUE
    /\ selectDisabled' = TRUE
    /\ buttonText' = <<"Getting available years...", Null>>
    /\ requests' = <<buildApiUrl("years", currentFullYear, 0)>>
    /\ pc' = "years"
    /\ allYears' = <<>>
    /\ yearsToProcess' = <<>>
    /\ completedYears' = 0
    /\ billsByYear' = <<>>
    /\ offset' = 0
    /\ totalPages' = 0
    /\ currentPage' = 0
    /\ allBills' = <<>>
    /\ allCampaigns' = <<>>
    /\ progressLog' = <<>>
    /\ creatorData' = <<>>
    /\ csv' = <<>>
    /\ downloads' = <<>>
    /\ UNCHANGED selectedValue

\* lines 121-131: the year listing fails (transport or status)
YearsFailed ==
    /\ pc = "years"
    /\ requests' = answered(requests, "failed", 0)
    /\ exportFailed
    /\ UNCHANGED <<selectedValue, allYears, yearsToProcess, completedYears,
                   billsByYear, fetchVars, progressLog, outVars>>

\* lines 126-127 and 252-268: the year listing arrives
YearsListed(years) ==
    /\ pc = "years"
    /\ allYears' = years
    /\ IF Len(years) = 0
       THEN /\ requests' = answered(requests, "ok", 0)
            /\ exportFailed
            /\ UNCHANGED <<yearsToProcess, fetchVars>>
       ELSE LET toProcess == IF selectedValue = "all" THEN years
                             ELSE <<parseInt(selectedValue)>>
            IN  /\ yearsToProcess' = toProcess
                /\ buttonText' = <<"Fetching data...", <<0>>>>
                /\ startYear(answered(requests, "ok", 0), toProcess[1])
                /\ UNCHANGED <<buttonDisabled, selectDisabled>>
    /\ UNCHANGED <<selectedValue, completedYears, billsByYear, progressLog, outVars>>

\* Faulty variant: the failure is swallowed and the bills fetched so far are returned.
PageFailedPartial ==
    /\ pc = "page"
    /\ returnYear(answered(requests, "failed", 0), yearsToProcess[completedYears + 1],
                  allBills, allCampaigns, totalPages, currentPage, buttonText)
    /\ UNCHANGED <<selectedValue, allYears, yearsToProcess, progressLog>>

\* Faulty variant: the failed request is issued again.
PageFailedRetry ==
    /\ pc = "page"
    /\ requests' = Append(answered(requests, "failed", 0),
                          buildApiUrl("page", yearsToProcess[completedYears + 1], offset))
    /\ UNCHANGED <<uiVars, pc, allYears, yearsToProcess, completedYears,
                   billsByYear, fetchVars, progressLog, outVars>>

\* lines 70-73 and 107-110: a page request fails (transport or status)
PageFailed ==
    /\ pc = "page"
    /\ requests' = answered(requests, "failed", 0)
    /\ exportFailed
    /\ UNCHANGED <<selectedValue, allYears, yearsToProcess, completedYears,
                   billsByYear, fetchVars, progressLog, outVars>>

\* lines 75-105: a page with n bills arrives, its metadata reporting `count`
PageReceived(n, count) ==
    /\ pc = "page"
    /\ n = pageSize => currentPage < MaxPages
    /\ LET year     == yearsToProcess[completedYears + 1]
           bills    == [i \in 1..n |-> serverBill(year, offset + i - 1)]
           total    == latchTotalPages(totalPages, count)
           progress == overallProgress(completedYears, Len(yearsToProcess),
                                       currentPage + 1, total)
           text     == <<"Year: Page", <<progress>>>>
       IN  /\ progressLog' = Append(progressLog, progress)
           /\ IF isLastPage(n)
              THEN returnYear(answered(requests, "ok", n), year, allBills \o bills,
                              includedOf(year, bills) @@ allCampaigns, total,
                              currentPage + 1, text)
              ELSE /\ requests' = answered(requests, "ok", n)
                   /\ allBills' = allBills \o bills
                   /\ allCampaigns' = includedOf(year, bills) @@ allCampaigns
                   /\ totalPages' = total
                   /\ currentPage' = currentPage + 1
                   /\ offset' = nextOffset(offset)
                   /\ buttonText' = text
                   /\ pc' = "delay"
                   /\ UNCHANGED <<buttonDisabled, selectDisabled, completedYears,
                                  billsByYear, outVars>>
    /\ UNCHANGED <<selectedValue, allYears, yearsToProcess>>

\* lines 105 and 67-70: the delay between two pages elapses and the next
\* page is requested
DelayElapsed ==
    /\ pc = "delay"
    /\ requests' = Append(requests,
                          buildApiUrl("page", yearsToProcess[completedYears + 1], offset))
    /\ pc' = "page"
    /\ UNCHANGED <<uiVars, allYears, yearsToProcess, completedYears, billsByYear,
                   fetchVars, progressLog, outVars>>

\* lines 288-292: the timer set on completion fires
ResetTimer ==
    /\ pc = "complete"
    /\ buttonText' = <<"Download Membership Data", Null>>
    /\ buttonDisabled' = FALSE
    /\ selectDisabled' = FALSE
    /\ pc' = "idle"
    /\ UNCHANGED <<selectedValue, requests, allYears, yearsToProcess, completedYears,
                   billsByYear, fetchVars, progressLog, outVars>>

Next ==
    \/ \E value \in {"all"} \cup {toString(y) : y \in YearSet} : SelectYear(value)
    \/ Click
    \/ YearsFailed
    \/ \E years \in YearListings : YearsListed(years)
    \/ PageFailed
    \/ \E n \in 0..pageSize : \E count \in MetaCounts : PageReceived(n, count)
    \/ DelayElapsed
    \/ ResetTimer

Spec == Init /\ [][Next]_vars

\* The timer of line 288 fires once it is set.
FairSpec == Spec /\ WF_vars(ResetTimer)

(***************************************************************************)
(* What the aggregation is required to compute, stated on the fetch        *)
(* results themselves.                                                     *)
(***************************************************************************)
Aggregated == pc = "render"
Rendered   == pc = "rendered"

\* The bill's creator reference resolves in the year's creator mapping.
Resolves(bill, campaigns) ==
    /\ bill.campaignId # NoId
    /\ bill.campaignId \in DOMAIN campaigns

\* Base amount plus tax amount, the tax taken as 0 when absent.
Combined(bill) ==
    OrZero(bill.amount_cents)
    + (IF bill.vat_charge_amount_cents = Null THEN 0
       ELSE bill.vat_charge_amount_cents[1])

\* Sum of the combined amounts of the resolvable bills of one year that
\* belong to creator `name` (to any creator when name = Null).
RECURSIVE IncludedSum(_, _, _)
IncludedSum(bills, campaigns, name) ==
    IF bills = <<>> THEN 0
    ELSE (IF /\ Resolves(Head(bills), campaigns)
             /\ (name = Null \/ <<campaigns[Head(bills).campaignId].name>> = name)
          THEN Combined(Head(bills)) ELSE 0)
         + IncludedSum(Tail(bills), campaigns, name)

RECURSIVE SumOverKeys(_, _, _)
SumOverKeys(keys, byYear, name) ==
    IF keys = {} THEN 0
    ELSE LET k == CHOOSE k \in keys : TRUE
         IN  IncludedSum(byYear[k].bills, byYear[k].campaigns, name)
             + SumOverKeys(keys \ {k}, byYear, name)

\* Sum of all per-creator per-year totals of an aggregate.
SumOfTotals(cd) ==
    SumSeq([i \in 1..Len(cd) |->
               SumFunction(cd[i].yearlySpends, DOMAIN cd[i].yearlySpends)])

\* The names of the creators some bill resolves to.
ResolvedNames(byYear) ==
    {byYear[k].campaigns[byYear[k].bills[i].campaignId].name :
        <<k, i>> \in {<<k, i>> \in (DOMAIN byYear) \X (1..MaxBills + pageSize * (MaxPages + 1)) :
                         /\ i <= Len(byYear[k].bills)
                         /\ Resolves(byYear[k].bills[i], byYear[k].campaigns)}}

\* C4: after processBillsData the per-creator per-year totals sum up to the
\* combined amounts (base + tax, tax 0 when absent) of exactly the bills whose
\* creator reference resolves; each creator's total of a year is the sum of
\* its resolvable bills of that year, and a bill with a missing or
\* unresolvable reference contributes to no total.
C4_TotalsAreIncludedBills ==
    Aggregated =>
        /\ SumOfTotals(creatorData) = SumOverKeys(DOMAIN billsByYear, billsByYear, Null)
        /\ {creatorData[i].name : i \in 1..Len(creatorData)} = ResolvedNames(billsByYear)
        /\ \A i \in 1..Len(creatorData) : \A k \in DOMAIN billsByYear :
              spendOf(creatorData[i].yearlySpends, k)
                = IncludedSum(billsByYear[k].bills, billsByYear[k].campaigns,
                              <<creatorData[i].name>>)

C4_Witness ==
    /\ Aggregated
    /\ creatorData # <<>>
    /\ \E k \in DOMAIN billsByYear : \E i \in 1..Len(billsByYear[k].bills) :
          billsByYear[k].bills[i].campaignId = NoId
    /\ \E k \in DOMAIN billsByYear : \E i \in 1..Len(billsByYear[k].bills) :
          /\ billsByYear[k].bills[i].campaignId # NoId
          /\ ~Resolves(billsByYear[k].bills[i], billsByYear[k].campaigns)
    /\ \E k \in DOMAIN billsByYear : \E i \in 1..Len(billsByYear[k].bills) :
          /\ Resolves(billsByYear[k].bills[i], billsByYear[k].campaigns)
          /\ billsByYear[k].bills[i].vat_charge_amount_cents # Null

\* The per-creator per-year totals of an aggregate, without its order and
\* without the creators' currency and URL.
TotalsOf(cd) == {<<cd[i].name, cd[i].yearlySpends>> : i \in 1..Len(cd)}

RECURSIVE Reorderings(_)
Reorderings(s) ==
    IF s = <<>> THEN {<<>>}
    ELSE UNION {{<<s[i]>> \o t :
                    t \in Reorderings(SubSeq(s, 1, i - 1) \o SubSeq(s, i + 1, Len(s)))} :
                i \in 1..Len(s)}

\* Every fetch result that differs from byYear only in the order of the
\* bills within a year.
Shuffles(byYear) ==
    {[k \in DOMAIN byYear |-> [bills |-> f[k], campaigns |-> byYear[k].campaigns]] :
        f \in {f \in [DOMAIN byYear ->
                        UNION {Reorderings(byYear[k].bills) : k \in DOMAIN byYear}] :
                  \A k \in DOMAIN byYear : f[k] \in Reorderings(byYear[k].bills)}}

\* C5: aggregation is order-independent: permuting the bills within a year
\* yields the same per-creator per-year totals.
C5_OrderIndependent ==
    Aggregated =>
        \A g \in Shuffles(billsByYear) :
            TotalsOf(processBillsData(g)) = TotalsOf(creatorData)

C5_Witness ==
    /\ Aggregated
    /\ \E k \in DOMAIN billsByYear :
          LET b == billsByYear[k].bills
          IN  /\ Len(b) >= 2
              /\ Resolves(b[1], billsByYear[k].campaigns)
              /\ b[1].campaignId = b[2].campaignId
              /\ Combined(b[1]) # Combined(b[2])
              /\ b[1].currency # b[2].currency

\* The bills in the order processBillsData visits them.
RECURSIVE EntriesOf(_, _)
EntriesOf(keys, byYear) ==
    IF keys = <<>> THEN <<>>
    ELSE [i \in 1..Len(byYear[Head(keys)].bills) |->
             [yearKey |-> Head(keys), bill |-> byYear[Head(keys)].bills[i],
              campaigns |-> byYear[Head(keys)].campaigns]]
         \o EntriesOf(Tail(keys), byYear)

Entries == EntriesOf(entriesOrder(DOMAIN billsByYear), billsByYear)

\* The aggregate after the first n bills.
RECURSIVE AfterBills(_)
AfterBills(n) ==
    IF n = 0 THEN <<>>
    ELSE processBill(AfterBills(n - 1), Entries[n].yearKey, Entries[n].bill,
                     Entries[n].campaigns)

IsBillOf(e, name) ==
    /\ Resolves(e.bill, e.campaigns)
    /\ e.campaigns[e.bill.campaignId].name = name

FirstBillOf(name) ==
    Entries[CHOOSE n \in 1..Len(Entries) :
               /\ IsBillOf(Entries[n], name)
               /\ \A m \in 1..(n - 1) : ~IsBillOf(Entries[m], name)]

\* C9: a creator's currency and URL are those of the first resolvable bill
\* of that creator in the order the bills are aggregated (years in ascending
\* order, bills in fetched order), and no later bill changes them.
C9_FirstSeenWins ==
    Aggregated =>
        /\ AfterBills(Len(Entries)) = creatorData
        /\ \A i \in 1..Len(creatorData) :
              LET e == FirstBillOf(creatorData[i].name)
              IN  /\ creatorData[i].currency = e.bill.currency
                  /\ creatorData[i].url = e.campaigns[e.bill.campaignId].url
        /\ \A n \in 1..Len(Entries) :
              \A i \in 1..Len(AfterBills(n - 1)) :
                  /\ AfterBills(n)[i].name = AfterBills(n - 1)[i].name
                  /\ AfterBills(n)[i].currency = AfterBills(n - 1)[i].currency
                  /\ AfterBills(n)[i].url = AfterBills(n - 1)[i].url

\* Years fetched newest first; a creator billed in both years, in different
\* currencies and under different URLs.
C9_Witness ==
    /\ Aggregated
    /\ yearsToProcess = <<2024, 2023>>
    /\ \E i \in 1..Len(creatorData) :
          \E m, n \in 1..Len(Entries) :
              /\ m < n
              /\ IsBillOf(Entries[m], creatorData[i].name)
              /\ IsBillOf(Entries[n], creatorData[i].name)
              /\ Entries[m].yearKey = "2023"
              /\ Entries[n].yearKey = "2024"
              /\ Entries[m].bill.currency # Entries[n].bill.currency
              /\ creatorData[i].currency = Entries[m].bill.currency
              /\ creatorData[i].url = "/alice"

\* A creator's total spend over the requested years.
TotalSpend(name) ==
    SumSeq([j \in 1..Len(yearsToProcess) |->
               SumOverKeys({toString(yearsToProcess[j])} \cap DOMAIN billsByYear,
                           billsByYear, <<name>>)])

Table == csv[1]

\* C6: the data rows are in descending order of total spend, the total of a
\* creator being the sum of its per-year totals over the requested years;
\* there is one row per creator and its total column is that total.
C6_RowsByDescendingTotal ==
    Rendered =>
        /\ Len(Table.rows) = Len(creatorData)
        /\ {Table.rows[i].name : i \in 1..Len(Table.rows)}
             = {creatorData[i].name : i \in 1..Len(creatorData)}
        /\ \A i \in 1..Len(Table.rows) :
              Table.rows[i].total
                = formatCurrency(TotalSpend(Table.rows[i].name), Table.rows[i].currency)
        /\ \A i \in 1..(Len(Table.rows) - 1) :
              TotalSpend(Table.rows[i].name) >= TotalSpend(Table.rows[i + 1].name)

C6_Witness ==
    /\ Rendered
    /\ Len(Table.rows) = 2
    /\ Table.rows[1].name = creatorData[2].name
    /\ TotalSpend(Table.rows[1].name) > TotalSpend(Table.rows[2].name)

\* C7: the year columns of the header and of every row are in strictly
\* descending year order whatever the order the years were supplied in, one
\* per requested year, and a row's column of a year holds the creator's
\* total for that year, 0 when it has no bill in that year.
C7_YearColumnsDescending ==
    Rendered =>
        /\ Len(Table.headerYears) = Len(yearsToProcess)
        /\ Range(Table.headerYears) = Range(yearsToProcess)
        /\ \A j \in 1..(Len(Table.headerYears) - 1) :
              Table.headerYears[j] > Table.headerYears[j + 1]
        /\ \A i \in 1..Len(Table.rows) :
              /\ Len(Table.rows[i].yearly) = Len(Table.headerYears)
              /\ \A j \in 1..Len(Table.headerYears) :
                    Table.rows[i].yearly[j]
                      = formatCurrency(
                            SumOverKeys({toString(Table.headerYears[j])},
                                        billsByYear, <<Table.rows[i].name>>),
                            Table.rows[i].currency)

C7_Witness ==
    /\ Rendered
    /\ yearsToProcess = <<2023, 2024>>
    /\ \E i \in 1..Len(Table.rows) :
          /\ Table.rows[i].yearly[1].whole + Table.rows[i].yearly[1].frac > 0
          /\ Table.rows[i].yearly[2] = formatCurrency(0, Table.rows[i].currency)
          /\ SumOverKeys({"2024"}, billsByYear, <<Table.rows[i].name>>) > 0

(***************************************************************************)
(* Properties of the export run (Spec, FairSpec).                          *)
(***************************************************************************)
\* The page requests of the current run for one year, in the order issued.
PageRequests(year) ==
    SelectSeq(requests, LAMBDA r : r.kind = "page" /\ r.year = year)

\* The years whose fetchYearData has returned in the current run.
ReturnedYears == {parseInt(k) : k \in DOMAIN billsByYear}

\* Every page holds exactly pageSize bills except the last one.
FullExceptLast(reqs) ==
    /\ reqs # <<>>
    /\ \A i \in 1..(Len(reqs) - 1) : reqs[i].bills = pageSize
    /\ reqs[Len(reqs)].bills < pageSize

TotalBills(reqs) == SumSeq([i \in 1..Len(reqs) |-> reqs[i].bills])

\* The requests were all answered, at offsets 0, pageSize, 2*pageSize, ...,
\* and the call returned all the records of the pages.
FetchedInOrder(year) ==
    LET reqs == PageRequests(year)
    IN  /\ \A i \in 1..Len(reqs) :
              /\ reqs[i].status = "ok"
              /\ reqs[i].offset = (i - 1) * pageSize
              /\ reqs[i].count = pageSize
        /\ billsByYear[toString(year)].bills
             = [i \in 1..TotalBills(reqs) |-> serverBill(year, i - 1)]

\* C1 as stated: a returned fetchYearData has issued exactly
\* ceil(total / pageSize) requests.
C1_CeilRequests ==
    \A year \in ReturnedYears :
        FullExceptLast(PageRequests(year)) =>
            /\ Len(PageRequests(year))
                 = (TotalBills(PageRequests(year)) + pageSize - 1) \div pageSize
            /\ FetchedInOrder(year)

\* C1, amended: when every page holds pageSize bills except the last one,
\* fetchYearData issues exactly floor(total / pageSize) + 1 requests (one per
\* full page and one for the short page, which may be empty), at offsets
\* 0, pageSize, 2*pageSize, ..., and returns all the records.
C1_FloorPlusOneRequests ==
    \A year \in ReturnedYears :
        FullExceptLast(PageRequests(year)) =>
            /\ Len(PageRequests(year))
                 = (TotalBills(PageRequests(year)) \div pageSize) + 1
            /\ FetchedInOrder(year)

C1_Witness ==
    \E year \in ReturnedYears :
        /\ FullExceptLast(PageRequests(year))
        /\ Len(PageRequests(year)) = 2
        /\ Len(billsByYear[toString(year)].bills) = pageSize + 1

SomeRequestFailed == \E i \in 1..Len(requests) : requests[i].status = "failed"

EmptyYearList ==
    /\ requests # <<>>
    /\ requests[1].status = "ok"
    /\ allYears = <<>>

\* C2: the CSV is downloaded only if the year listing succeeded and was not
\* empty and every page request of every processed year succeeded; in a run
\* where a request failed or the year list was empty no CSV is produced.
C2_NoPartialCsv ==
    /\ downloads # <<>> =>
          /\ Len(downloads) = 1
          /\ requests[1].kind = "years"
          /\ \A i \in 1..Len(requests) : requests[i].status = "ok"
          /\ allYears # <<>>
          /\ \A i \in 1..Len(yearsToProcess) :
                /\ yearsToProcess[i] \in ReturnedYears
                /\ FullExceptLast(PageRequests(yearsToProcess[i]))
    /\ (SomeRequestFailed \/ EmptyYearList) => (downloads = <<>> /\ csv = <<>>)

\* A page request of the second year failed after the first year, with a
\* bill of a known creator, had been fetched.
C2_Witness ==
    /\ SomeRequestFailed
    /\ downloads = <<>>
    /\ completedYears = 1
    /\ Len(yearsToProcess) = 2
    /\ processBillsData(billsByYear) # <<>>

\* C3: a failed page request ends the fetch of its year at once: it is the
\* last request (not reissued, none at a later offset), and the year's
\* bills and creators accumulated so far are not returned.
C3_AbortOnFailure ==
    \A i \in 1..Len(requests) :
        (requests[i].kind = "page" /\ requests[i].status = "failed") =>
            /\ i = Len(requests)
            /\ pc = "idle"
            /\ requests[i].year \notin ReturnedYears
            /\ \A j \in 1..(i - 1) :
                  (requests[j].kind = "page" /\ requests[j].year = requests[i].year)
                      => requests[j].offset < requests[i].offset

\* The second page of a year failed; the first page's bills are held by the
\* aborted call and appear in no result.
C3_Witness ==
    /\ requests # <<>>
    /\ requests[Len(requests)].kind = "page"
    /\ requests[Len(requests)].status = "failed"
    /\ requests[Len(requests)].offset = pageSize
    /\ Len(allBills) = pageSize
    /\ billsByYear = <<>>

InProgress == pc \in {"years", "page", "delay"}

RunEnded == buttonText[1] \in {"Complete!", "Export failed - check console"}

ControlsEnabled == ~buttonDisabled /\ ~selectDisabled

\* C8: the export button and the year selector are disabled for as long as
\* an export run is in progress, and after every run, completed or failed,
\* they are eventually enabled again.
C8_DisabledWhileRunning ==
    /\ [](InProgress => (buttonDisabled /\ selectDisabled))
    /\ (RunEnded ~> ControlsEnabled)

C8_Witness ==
    /\ buttonText[1] = "Complete!"
    /\ buttonDisabled
    /\ selectDisabled
    /\ downloads # <<>>

\* C10: every overall progress percentage reported after a fetched page is
\* between 0 and 100, and none is lower than the one reported before it.
C10_ProgressBoundedMonotone ==
    \A i \in 1..Len(progressLog) :
        /\ 0 <= progressLog[i]
        /\ progressLog[i] <= 100
        /\ i > 1 => progressLog[i - 1] <= progressLog[i]

====
